---- MODULE Spec2Model ----
(***************************************************************************)
(* Model of backbone.linkview (src/src/backbone.linkview.js): a Backbone   *)
(* view rendering a link that navigates through Backbone.history on click  *)
(* and mirrors the current route into an "active" class.                   *)
(*                                                                         *)
(* JavaScript values are records [t, v]: t is the typeof tag, v the string *)
(* payload.  A function-valued option is [t |-> "function", v |-> r]: r is *)
(* what the function returns when it is called with the view as `this`     *)
(* (Throw: it throws); called with any other context it throws, as a       *)
(* function reading `this.x` does.  The environment may change r between   *)
(* calls (FnChange).  Class names are non-empty single tokens.             *)
(***************************************************************************)
EXTENDS Integers, Sequences, FiniteSets, TLC

\* ------------------------------------------------------------------ bounds
MaxWidgets == 2

AllWidgets == 1..MaxWidgets
SingleWidget == {1}

Fragments == {"", "about", "home"}
Throw == "<throw>"

\* --------------------------------------------------------------- JS values
Undef == [t |-> "undefined", v |-> ""]
Null == [t |-> "null", v |-> ""]
This == [t |-> "object", v |-> "this"]
Str(s) == [t |-> "string", v |-> s]
Bool(b) == [t |-> "boolean", v |-> IF b THEN "true" ELSE "false"]
Fn(r) == [t |-> "function", v |-> r]

isFunction(x) == x.t = "function"

\* JavaScript truthiness, as tested by `if (x)`, `!x` and `!!x`.
truthy(x) ==
  CASE x.t = "undefined" -> FALSE
    [] x.t = "null" -> FALSE
    [] x.t = "string" -> x.v # ""
    [] x.t = "boolean" -> x.v = "true"
    [] OTHER -> TRUE

\* One call made by a handler to a collaborator (DOM element, event, router,
\* option function): f the callee, a its argument, trigger the navigate option.
Call(f, a) == [f |-> f, a |-> a, trigger |-> FALSE]
NavigateCall(a) == [f |-> "navigate", a |-> a, trigger |-> TRUE]

\* ------------------------------------------------------------ the prototype
linkViewOptions == {"href", "activeClass", "textContent", "innerHTML", "template"}

Fields == linkViewOptions \cup {"_isActive"}

Prototype ==
  [k \in Fields |->
     CASE k = "href" -> Null
       [] k = "activeClass" -> Str("active")
       [] k = "textContent" -> Null
       [] k = "innerHTML" -> Null
       [] k = "template" -> Null
       [] OTHER -> Undef]

tagName == "a"

\* _.pick(obj, keys) and _.extend(dst, src)
pick(obj, keys) == [k \in (DOMAIN obj) \cap keys |-> obj[k]]
extend(dst, src) ==
  [k \in (DOMAIN dst) \cup (DOMAIN src) |-> IF k \in DOMAIN src THEN src[k] ELSE dst[k]]

\* f.call(ctx): the outcome of calling option function f, named prop.
call(prop, f, ctx) ==
  LET threw == (ctx # This) \/ (f.v = Throw)
  IN [threw |-> threw,
      val |-> IF threw THEN Undef ELSE Str(f.v),
      calls |-> <<Call(prop, ctx)>>]

\* _.result(obj, prop): a function is invoked with obj as context, any other
\* value passes through.
result(obj, prop) ==
  LET value == obj[prop]
  IN IF isFunction(value)
       THEN call(prop, value, This)
       ELSE [threw |-> FALSE, val |-> value, calls |-> <<>>]

\* ------------------------------------------------------------- the element
NoContent == [kind |-> "html", v |-> ""]
NoEl == [tag |-> "", classes |-> {}, content |-> NoContent, href |-> Undef]

\* $el.text(s) that appends to the content instead of replacing it.
text_appends(elem, s) ==
  [elem EXCEPT !.content = [kind |-> "text", v |-> elem.content.v \o s.v]]

\* jQuery: $el.text(s), $el.html(s), $el.addClass(c), $el.removeClass(c)
text(elem, s) == [elem EXCEPT !.content = [kind |-> "text", v |-> s.v]]
html(elem, s) == [elem EXCEPT !.content = [kind |-> "html", v |-> s.v]]
addClass(elem, c) ==
  IF c.t = "string" /\ c.v # "" THEN [elem EXCEPT !.classes = @ \cup {c.v}] ELSE elem
removeClass(elem, c) ==
  IF c.t = "string" /\ c.v # "" THEN [elem EXCEPT !.classes = @ \ {c.v}] ELSE elem

\* ---------------------------------------------------------------- methods
\* Each method is an operator from the view's fields (me), its element (elem)
\* and the arguments to the outcome: the fields and element afterwards,
\* whether it threw, what it returned and the calls it made, in order.
Outcome(me, elem, threw, ret, calls) ==
  [self |-> me, el |-> elem, threw |-> threw, ret |-> ret, calls |-> calls]

\* attributes() that returns the href the element already has.
attributes_cached(me, elem) ==
  LET h == result(me, "href")
  IN Outcome(me, elem, h.threw, IF h.threw THEN Undef ELSE elem.href, h.calls)

attributes(me, elem) ==
  LET h == result(me, "href")
  IN Outcome(me, elem, h.threw, IF h.threw THEN Undef ELSE h.val, h.calls)

isActive(me, elem) ==
  Outcome(me, elem, FALSE, Bool(truthy(me["_isActive"])), <<>>)

\* render() that resolves each source before it tests it, and so passes over a
\* function that returns the empty string.
render_resolvedFirst(me, elem) ==
  LET t == result(me, "textContent")
      i == result(me, "innerHTML")
      p == IF isFunction(me["template"]) THEN call("template", me["template"], This)
           ELSE [threw |-> FALSE, val |-> me["template"], calls |-> <<>>]
  IN IF t.threw THEN Outcome(me, elem, TRUE, Undef, t.calls)
     ELSE IF truthy(t.val) THEN
       Outcome(me, text(elem, t.val), FALSE, This, t.calls \o <<Call("text", t.val)>>)
     ELSE IF i.threw THEN Outcome(me, elem, TRUE, Undef, t.calls \o i.calls)
     ELSE IF truthy(i.val) THEN
       Outcome(me, html(elem, i.val), FALSE, This,
               t.calls \o i.calls \o <<Call("html", i.val)>>)
     ELSE IF p.threw THEN Outcome(me, elem, TRUE, Undef, t.calls \o i.calls \o p.calls)
     ELSE IF truthy(p.val) THEN
       Outcome(me, html(elem, p.val), FALSE, This,
               t.calls \o i.calls \o p.calls \o <<Call("html", p.val)>>)
     ELSE Outcome(me, elem, FALSE, This, t.calls \o i.calls \o p.calls)

\* render() that looks at innerHTML before textContent.
render_htmlFirst(me, elem) ==
  IF truthy(me["innerHTML"]) THEN
    LET r == result(me, "innerHTML")
    IN IF r.threw THEN Outcome(me, elem, TRUE, Undef, r.calls)
       ELSE Outcome(me, html(elem, r.val), FALSE, This, r.calls \o <<Call("html", r.val)>>)
  ELSE IF truthy(me["textContent"]) THEN
    LET r == result(me, "textContent")
    IN IF r.threw THEN Outcome(me, elem, TRUE, Undef, r.calls)
       ELSE Outcome(me, text(elem, r.val), FALSE, This, r.calls \o <<Call("text", r.val)>>)
  ELSE IF truthy(me["template"]) THEN
    LET r == call("template", me["template"], This)
    IN IF r.threw THEN Outcome(me, elem, TRUE, Undef, r.calls)
       ELSE Outcome(me, html(elem, r.val), FALSE, This, r.calls \o <<Call("html", r.val)>>)
  ELSE Outcome(me, elem, FALSE, This, <<>>)

\* render() that also resets the element's class attribute.
render_resetsClasses(me, elem) ==
  LET bare == [elem EXCEPT !.classes = {}]
  IN IF truthy(me["textContent"]) THEN
       LET r == result(me, "textContent")
       IN IF r.threw THEN Outcome(me, elem, TRUE, Undef, r.calls)
          ELSE Outcome(me, text(bare, r.val), FALSE, This, r.calls \o <<Call("text", r.val)>>)
     ELSE IF truthy(me["innerHTML"]) THEN
       LET r == result(me, "innerHTML")
       IN IF r.threw THEN Outcome(me, elem, TRUE, Undef, r.calls)
          ELSE Outcome(me, html(bare, r.val), FALSE, This, r.calls \o <<Call("html", r.val)>>)
     ELSE IF truthy(me["template"]) THEN
       LET r == call("template", me["template"], This)
       IN IF r.threw THEN Outcome(me, elem, TRUE, Undef, r.calls)
          ELSE Outcome(me, html(bare, r.val), FALSE, This, r.calls \o <<Call("html", r.val)>>)
     ELSE Outcome(me, bare, FALSE, This, <<>>)

render(me, elem) ==
  IF truthy(me["textContent"]) THEN
    LET r == result(me, "textContent")
    IN IF r.threw THEN Outcome(me, elem, TRUE, Undef, r.calls)
       ELSE Outcome(me, text(elem, r.val), FALSE, This, r.calls \o <<Call("text", r.val)>>)
  ELSE IF truthy(me["innerHTML"]) THEN
    LET r == result(me, "innerHTML")
    IN IF r.threw THEN Outcome(me, elem, TRUE, Undef, r.calls)
       ELSE Outcome(me, html(elem, r.val), FALSE, This, r.calls \o <<Call("html", r.val)>>)
  ELSE IF truthy(me["template"]) THEN
    LET r == call("template", me["template"], This)
    IN IF r.threw THEN Outcome(me, elem, TRUE, Undef, r.calls)
       ELSE Outcome(me, html(elem, r.val), FALSE, This, r.calls \o <<Call("html", r.val)>>)
  ELSE Outcome(me, elem, FALSE, This, <<>>)

\* _onClick that resolves href and navigates before it calls preventDefault.
_onClick_preventLast(me, elem, navThrows) ==
  LET prevent == <<Call("preventDefault", Undef)>>
      h == result(me, "href")
  IN IF h.threw THEN Outcome(me, elem, TRUE, Undef, h.calls)
     ELSE IF navThrows THEN Outcome(me, elem, TRUE, Undef, h.calls \o <<NavigateCall(h.val)>>)
     ELSE Outcome(me, elem, FALSE, Undef, h.calls \o <<NavigateCall(h.val)>> \o prevent)

\* _onClick that passes this.href to navigate without resolving it.
_onClick_navigatesRaw(me, elem, navThrows) ==
  LET prevent == <<Call("preventDefault", Undef)>>
  IN Outcome(me, elem, navThrows, Undef, prevent \o <<NavigateCall(me["href"])>>)

\* navThrows: whether Backbone.history.navigate throws on this request.
_onClick(me, elem, navThrows) ==
  LET prevent == <<Call("preventDefault", Undef)>>
      h == result(me, "href")
  IN IF h.threw THEN Outcome(me, elem, TRUE, Undef, prevent \o h.calls)
     ELSE Outcome(me, elem, navThrows, Undef,
                  prevent \o h.calls \o <<NavigateCall(h.val)>>)

\* _onRoute that clears the flag without removing the class.
_onRoute_noRemove(me, elem, frag) ==
  LET route == Str(frag)
      get == <<Call("getFragment", Undef)>>
      h == result(me, "href")
  IN IF h.threw THEN Outcome(me, elem, TRUE, Undef, get \o h.calls)
     ELSE
       LET a == result(me, "activeClass")
           evals == get \o h.calls \o a.calls
       IN IF a.threw THEN Outcome(me, elem, TRUE, Undef, evals)
          ELSE IF route = h.val /\ ~truthy(me["_isActive"]) THEN
            Outcome([me EXCEPT !["_isActive"] = Bool(TRUE)], addClass(elem, a.val),
                    FALSE, Undef, evals \o <<Call("addClass", a.val)>>)
          ELSE IF truthy(me["_isActive"]) THEN
            Outcome([me EXCEPT !["_isActive"] = Bool(FALSE)], elem, FALSE, Undef, evals)
          ELSE Outcome(me, elem, FALSE, Undef, evals)

\* _onRoute that adds the class on every matching event but sets the flag
\* only when the class was not there yet.
_onRoute_noFlag(me, elem, frag) ==
  LET route == Str(frag)
      get == <<Call("getFragment", Undef)>>
      h == result(me, "href")
  IN IF h.threw THEN Outcome(me, elem, TRUE, Undef, get \o h.calls)
     ELSE
       LET a == result(me, "activeClass")
           evals == get \o h.calls \o a.calls
       IN IF a.threw THEN Outcome(me, elem, TRUE, Undef, evals)
          ELSE IF route = h.val /\ ~truthy(me["_isActive"]) THEN
            Outcome(me, addClass(elem, a.val),
                    FALSE, Undef, evals \o <<Call("addClass", a.val)>>)
          ELSE IF truthy(me["_isActive"]) THEN
            Outcome([me EXCEPT !["_isActive"] = Bool(FALSE)], removeClass(elem, a.val),
                    FALSE, Undef, evals \o <<Call("removeClass", a.val)>>)
          ELSE Outcome(me, elem, FALSE, Undef, evals)

\* _onRoute that resolves activeClass only where it uses it.
_onRoute_lazyClass(me, elem, frag) ==
  LET route == Str(frag)
      get == <<Call("getFragment", Undef)>>
      h == result(me, "href")
  IN IF h.threw THEN Outcome(me, elem, TRUE, Undef, get \o h.calls)
     ELSE
       LET a == result(me, "activeClass")
           evals == get \o h.calls \o a.calls
       IN IF route = h.val /\ ~truthy(me["_isActive"]) THEN
            IF a.threw THEN Outcome(me, elem, TRUE, Undef, evals)
            ELSE Outcome([me EXCEPT !["_isActive"] = Bool(TRUE)], addClass(elem, a.val),
                         FALSE, Undef, evals \o <<Call("addClass", a.val)>>)
          ELSE IF truthy(me["_isActive"]) THEN
            IF a.threw THEN Outcome(me, elem, TRUE, Undef, evals)
            ELSE Outcome([me EXCEPT !["_isActive"] = Bool(FALSE)], removeClass(elem, a.val),
                         FALSE, Undef, evals \o <<Call("removeClass", a.val)>>)
          ELSE Outcome(me, elem, FALSE, Undef, get \o h.calls)

\* _onRoute that sets or clears the flag before it resolves activeClass.
_onRoute_flagFirst(me, elem, frag) ==
  LET route == Str(frag)
      get == <<Call("getFragment", Undef)>>
      h == result(me, "href")
  IN IF h.threw THEN Outcome(me, elem, TRUE, Undef, get \o h.calls)
     ELSE
       LET a == result(me, "activeClass")
           evals == get \o h.calls \o a.calls
       IN IF route = h.val /\ ~truthy(me["_isActive"]) THEN
            IF a.threw
              THEN Outcome([me EXCEPT !["_isActive"] = Bool(TRUE)], elem, TRUE, Undef, evals)
              ELSE Outcome([me EXCEPT !["_isActive"] = Bool(TRUE)], addClass(elem, a.val),
                           FALSE, Undef, evals \o <<Call("addClass", a.val)>>)
          ELSE IF truthy(me["_isActive"]) THEN
            IF a.threw
              THEN Outcome([me EXCEPT !["_isActive"] = Bool(FALSE)], elem, TRUE, Undef, evals)
              ELSE Outcome([me EXCEPT !["_isActive"] = Bool(FALSE)], removeClass(elem, a.val),
                           FALSE, Undef, evals \o <<Call("removeClass", a.val)>>)
          ELSE Outcome(me, elem, a.threw, Undef, evals)

\* _onRoute that adds the class on every matching event, active or not.
_onRoute_alwaysAdd(me, elem, frag) ==
  LET route == Str(frag)
      get == <<Call("getFragment", Undef)>>
      h == result(me, "href")
  IN IF h.threw THEN Outcome(me, elem, TRUE, Undef, get \o h.calls)
     ELSE
       LET a == result(me, "activeClass")
           evals == get \o h.calls \o a.calls
       IN IF a.threw THEN Outcome(me, elem, TRUE, Undef, evals)
          ELSE IF route = h.val THEN
            Outcome([me EXCEPT !["_isActive"] = Bool(TRUE)], addClass(elem, a.val),
                    FALSE, Undef, evals \o <<Call("addClass", a.val)>>)
          ELSE IF truthy(me["_isActive"]) THEN
            Outcome([me EXCEPT !["_isActive"] = Bool(FALSE)], removeClass(elem, a.val),
                    FALSE, Undef, evals \o <<Call("removeClass", a.val)>>)
          ELSE Outcome(me, elem, FALSE, Undef, evals)

\* _onRoute without the branch that deactivates.
_onRoute_neverClears(me, elem, frag) ==
  LET route == Str(frag)
      get == <<Call("getFragment", Undef)>>
      h == result(me, "href")
  IN IF h.threw THEN Outcome(me, elem, TRUE, Undef, get \o h.calls)
     ELSE
       LET a == result(me, "activeClass")
           evals == get \o h.calls \o a.calls
       IN IF a.threw THEN Outcome(me, elem, TRUE, Undef, evals)
          ELSE IF route = h.val /\ ~truthy(me["_isActive"]) THEN
            Outcome([me EXCEPT !["_isActive"] = Bool(TRUE)], addClass(elem, a.val),
                    FALSE, Undef, evals \o <<Call("addClass", a.val)>>)
          ELSE Outcome(me, elem, FALSE, Undef, evals)

\* _onRoute that removes the class 'active' whatever activeClass resolves to.
_onRoute_removesDefault(me, elem, frag) ==
  LET route == Str(frag)
      get == <<Call("getFragment", Undef)>>
      h == result(me, "href")
  IN IF h.threw THEN Outcome(me, elem, TRUE, Undef, get \o h.calls)
     ELSE
       LET a == result(me, "activeClass")
           evals == get \o h.calls \o a.calls
       IN IF a.threw THEN Outcome(me, elem, TRUE, Undef, evals)
          ELSE IF route = h.val /\ ~truthy(me["_isActive"]) THEN
            Outcome([me EXCEPT !["_isActive"] = Bool(TRUE)], addClass(elem, a.val),
                    FALSE, Undef, evals \o <<Call("addClass", a.val)>>)
          ELSE IF truthy(me["_isActive"]) THEN
            Outcome([me EXCEPT !["_isActive"] = Bool(FALSE)],
                    removeClass(elem, Str("active")),
                    FALSE, Undef, evals \o <<Call("removeClass", Str("active"))>>)
          ELSE Outcome(me, elem, FALSE, Undef, evals)

\* frag: what Backbone.history.getFragment() returns.
_onRoute(me, elem, frag) ==
  LET route == Str(frag)
      get == <<Call("getFragment", Undef)>>
      h == result(me, "href")
  IN IF h.threw THEN Outcome(me, elem, TRUE, Undef, get \o h.calls)
     ELSE
       LET a == result(me, "activeClass")
           evals == get \o h.calls \o a.calls
       IN IF a.threw THEN Outcome(me, elem, TRUE, Undef, evals)
          ELSE IF route = h.val /\ ~truthy(me["_isActive"]) THEN
            Outcome([me EXCEPT !["_isActive"] = Bool(TRUE)], addClass(elem, a.val),
                    FALSE, Undef, evals \o <<Call("addClass", a.val)>>)
          ELSE IF truthy(me["_isActive"]) THEN
            Outcome([me EXCEPT !["_isActive"] = Bool(FALSE)], removeClass(elem, a.val),
                    FALSE, Undef, evals \o <<Call("removeClass", a.val)>>)
          ELSE Outcome(me, elem, FALSE, Undef, evals)

\* ------------------------------------------------------------------- state
VARIABLES
  views,      \* the views constructed so far
  self,       \* self[w]: the fields of view w (own fields over the prototype)
  el,         \* el[w]: the element of view w
  initial,    \* initial[w]: the options w was constructed with and the classes
              \* its element carried then
  listeners,  \* the views listening to Backbone.history's 'route' event
  fragment,   \* the router's current fragment
  navReq,     \* the navigation request the router has not answered yet
  pending,    \* the views the current 'route' event is still to be delivered to
  failed,     \* the views whose handler threw on the current 'route' event
  added,      \* added[w]: the classes _onRoute added to el[w] and has not removed
  last        \* the last operation: its name, view, outcome and calls, and
              \* whether it repeats the operation before it

vars == <<views, self, el, initial, listeners, fragment, navReq, pending, failed, added,
          last>>

\* A navigation request: the view whose click made it and the fragment asked for.
NoRequest == [by |-> 0, to |-> Undef]

Last(op, w, o) ==
  [op |-> op, w |-> w, threw |-> o.threw, ret |-> o.ret, calls |-> o.calls,
   again |-> (last.op = op /\ last.w = w)]
NoOutcome == [threw |-> FALSE, ret |-> Undef, calls |-> <<>>]

Idle == navReq = NoRequest /\ pending = {}

\* ------------------------------------------------------------------ inputs
Missing == [t |-> "missing", v |-> ""]

NoOptions == [k \in {} |-> Undef]

\* The options object with the given values, keys with value Missing left out.
OptionsObject(c) == [k \in {k \in DOMAIN c : c[k] # Missing} |-> c[k]]

HrefChoices == {Missing, Str("about"), Fn("about")}
ActiveClassChoices == {Missing, Str("on"), Fn("on")}
TextChoices == {Missing, Str("A"), Str(""), Fn("A")}
HtmlChoices == {Missing, Str("B"), Str(""), Fn("B")}
TemplateChoices == {Missing, Fn("T")}
IsActiveChoices == {Missing, Bool(TRUE)}

Choices(hs, as, ts, is, ps, xs) ==
  { OptionsObject([href |-> h, activeClass |-> a, textContent |-> t,
                   innerHTML |-> i, template |-> p, _isActive |-> x]) :
      h \in hs, a \in as, t \in ts, i \in is, p \in ps, x \in xs }

\* Options that vary the routing side, and options that vary the content side.
RouteOptions ==
  Choices(HrefChoices, ActiveClassChoices, {Missing, Str("A")}, {Missing}, {Missing},
          IsActiveChoices)
ContentOptions ==
  Choices({Str("about")}, {Missing}, TextChoices, HtmlChoices, TemplateChoices, {Missing})
OptionObjects == RouteOptions \cup ContentOptions

InitialClasses == {{}, {"active"}}
InitialContents == {NoContent, [kind |-> "html", v |-> "X"]}

\* What an option function may return (FnChange).
Returns(prop) ==
  CASE prop = "href" -> {"about", "home", Throw}
    [] prop = "activeClass" -> {"active", "on", Throw}
    [] prop = "textContent" -> {"A", "", Throw}
    [] prop = "innerHTML" -> {"B", "", Throw}
    [] OTHER -> {"T", Throw}

\* ----------------------------------------------------------------- actions
Init ==
  /\ views = {}
  /\ self = [w \in AllWidgets |-> Prototype]
  /\ el = [w \in AllWidgets |-> NoEl]
  /\ initial = [w \in AllWidgets |-> [options |-> NoOptions, classes |-> {}]]
  /\ listeners = {}
  /\ fragment = ""
  /\ navReq = NoRequest
  /\ pending = {}
  /\ failed = {}
  /\ added = [w \in AllWidgets |-> {}]
  /\ last = [op |-> "init", w |-> 0, threw |-> FALSE, ret |-> Undef, calls |-> <<>>,
             again |-> FALSE]

\* A constructor that does not listen to 'route'.
constructor_noListen(w, options, classes, content) ==
  LET me == extend(Prototype, pick(options, linkViewOptions))
      attrs == attributes(me, NoEl)
  IN /\ w \notin views
     /\ Idle
     /\ ~attrs.threw
     /\ views' = views \cup {w}
     /\ self' = [self EXCEPT ![w] = me]
     /\ el' = [el EXCEPT ![w] = [tag |-> tagName, classes |-> classes,
                                 content |-> content, href |-> attrs.ret]]
     /\ initial' = [initial EXCEPT ![w] = [options |-> options, classes |-> classes]]
     /\ last' = Last("constructor", w, [NoOutcome EXCEPT !.calls = attrs.calls])
     /\ UNCHANGED <<listeners, fragment, navReq, pending, failed, added>>

\* A constructor that copies every key of the options object onto the view.
constructor_copiesAll(w, options, classes, content) ==
  LET me == extend(Prototype, options)
      attrs == attributes(me, NoEl)
  IN /\ w \notin views
     /\ Idle
     /\ ~attrs.threw
     /\ views' = views \cup {w}
     /\ self' = [self EXCEPT ![w] = me]
     /\ listeners' = listeners \cup {w}
     /\ el' = [el EXCEPT ![w] = [tag |-> tagName, classes |-> classes,
                                 content |-> content, href |-> attrs.ret]]
     /\ initial' = [initial EXCEPT ![w] = [options |-> options, classes |-> classes]]
     /\ last' = Last("constructor", w, [NoOutcome EXCEPT !.calls = attrs.calls])
     /\ UNCHANGED <<fragment, navReq, pending, failed, added>>

\* new LinkView(options): copy the recognised options, listen to 'route', then
\* Backbone.View creates the element with tagName and attributes() and, here,
\* the classes and content the caller's element already has.
constructor(w, options, classes, content) ==
  LET me == extend(Prototype, pick(options, linkViewOptions))
      attrs == attributes(me, NoEl)
  IN /\ w \notin views
     /\ Idle
     /\ ~attrs.threw
     /\ views' = views \cup {w}
     /\ self' = [self EXCEPT ![w] = me]
     /\ listeners' = listeners \cup {w}
     /\ el' = [el EXCEPT ![w] = [tag |-> tagName, classes |-> classes,
                                 content |-> content, href |-> attrs.ret]]
     /\ initial' = [initial EXCEPT ![w] = [options |-> options, classes |-> classes]]
     /\ last' = Last("constructor", w, [NoOutcome EXCEPT !.calls = attrs.calls])
     /\ UNCHANGED <<fragment, navReq, pending, failed, added>>

\* A method that runs to its end on view w and touches only w and its element.
Apply(op, w, o) ==
  /\ self' = [self EXCEPT ![w] = o.self]
  /\ el' = [el EXCEPT ![w] = o.el]
  /\ last' = Last(op, w, o)

Render(w) ==
  /\ w \in views
  /\ Apply("render", w, render(self[w], el[w]))
  /\ UNCHANGED <<views, initial, listeners, fragment, navReq, pending, failed, added>>

Attributes(w) ==
  /\ w \in views
  /\ Apply("attributes", w, attributes(self[w], el[w]))
  /\ UNCHANGED <<views, initial, listeners, fragment, navReq, pending, failed, added>>

IsActive(w) ==
  /\ w \in views
  /\ Apply("isActive", w, isActive(self[w], el[w]))
  /\ UNCHANGED <<views, initial, listeners, fragment, navReq, pending, failed, added>>

\* A click on the element: the events map dispatches it to _onClick.  The
\* request reaches the router unless href resolution or navigate threw.
Click(w, navThrows) ==
  LET o == _onClick(self[w], el[w], navThrows)
  IN /\ w \in views
     /\ Idle
     /\ Apply("click", w, o)
     /\ navReq' = IF o.threw THEN NoRequest ELSE [by |-> w, to |-> o.calls[Len(o.calls)].a]
     /\ UNCHANGED <<views, initial, listeners, fragment, pending, failed, added>>

\* The router answers the request: the fragment (`fragment || ''`) becomes
\* current and 'route' is triggered on Backbone.history.
Navigate ==
  /\ navReq # NoRequest
  /\ fragment' = IF navReq.to.t = "string" THEN navReq.to.v ELSE ""
  /\ navReq' = NoRequest
  /\ pending' = listeners
  /\ failed' = {}
  /\ last' = Last("navigate", navReq.by, NoOutcome)
  /\ UNCHANGED <<views, self, el, initial, listeners, added>>

\* A route change from elsewhere (the address bar, another router call),
\* also one that repeats the current fragment or comes before any view exists.
RouteChange(f) ==
  /\ Idle
  /\ fragment' = f
  /\ pending' = listeners
  /\ failed' = {}
  /\ last' = Last("routeChange", 0, NoOutcome)
  /\ UNCHANGED <<views, self, el, initial, listeners, navReq, added>>

\* The classes a handler has added and not removed, after it made the calls cs
\* (at most one addClass or removeClass) with the classes as before it.
Tracked(as, cs) ==
  LET adds == {cs[k].a.v : k \in {k \in 1..Len(cs) : cs[k].f = "addClass"}}
      removes == {cs[k].a.v : k \in {k \in 1..Len(cs) : cs[k].f = "removeClass"}}
  IN (as \cup adds) \ removes

\* The 'route' event reaches view w: listenTo calls _onRoute on it.
OnRoute(w) ==
  /\ w \in pending
  /\ LET o == _onRoute(self[w], el[w], fragment)
     IN /\ Apply("route", w, o)
        /\ failed' = IF o.threw THEN failed \cup {w} ELSE failed
        /\ added' = [added EXCEPT ![w] = Tracked(@, o.calls)]
  /\ pending' = pending \ {w}
  /\ UNCHANGED <<views, initial, listeners, fragment, navReq>>

\* The environment changes what an option function of view w returns.
FnChange(w, prop, r) ==
  /\ w \in views
  /\ isFunction(self[w][prop])
  /\ self[w][prop].v # r
  /\ self' = [self EXCEPT ![w][prop] = Fn(r)]
  /\ last' = Last("fnChange", w, NoOutcome)
  /\ UNCHANGED <<views, el, initial, listeners, fragment, navReq, pending, failed, added>>

Step(ws, opts) ==
  \/ \E w \in ws, options \in opts, cs \in InitialClasses, c \in InitialContents :
       constructor(w, options, cs, c)
  \/ \E w \in ws : Render(w)
  \/ \E w \in ws : Attributes(w)
  \/ \E w \in ws : IsActive(w)
  \/ \E w \in ws, navThrows \in BOOLEAN : Click(w, navThrows)
  \/ Navigate
  \/ \E f \in Fragments : RouteChange(f)
  \/ \E w \in ws : OnRoute(w)
  \/ \E w \in ws, prop \in linkViewOptions :
       \E r \in Returns(prop) : FnChange(w, prop, r)

Next == Step(SingleWidget, OptionObjects)

Spec == Init /\ [][Next]_vars

\* Several views on one router, each a link to another page: view w has the
\* literal href LinkHrefs[w] and activeClass the default or a function, which
\* returns or throws.  Construction, clicks, route events in any delivery
\* order, and changes of what the activeClass functions do.
LinkHrefs == <<"about", "home", "">>

MultiOptions(w) ==
  Choices({Str(LinkHrefs[w])}, {Missing, Fn("on")}, {Missing}, {Missing}, {Missing},
          {Missing})

NextMulti ==
  \/ \E w \in AllWidgets :
       \E options \in MultiOptions(w) : constructor(w, options, {}, NoContent)
  \/ \E w \in AllWidgets, navThrows \in BOOLEAN : Click(w, navThrows)
  \/ Navigate
  \/ \E f \in Fragments : RouteChange(f)
  \/ \E w \in AllWidgets : OnRoute(w)
  \/ \E w \in AllWidgets, r \in {"on", Throw} : FnChange(w, "activeClass", r)

SpecMulti == Init /\ [][NextMulti]_vars

\* ------------------------------------------------------- reading the state
\* isActive() of view w, and the classes and content of its element.
Active(w) == truthy(self[w]["_isActive"])
Classes(w) == el[w].classes
Content(w) == el[w].content

\* What option value x resolves to when resolving it does not throw, and
\* whether resolving it throws.
Resolved(x) == IF x.t = "function" THEN Str(x.v) ELSE x
Throws(x) == x.t = "function" /\ x.v = Throw

\* The calls among cs to one of the callees fs, in order.
CallsTo(cs, fs) == SelectSeq(cs, LAMBDA c : c.f \in fs)

\* The last operation was op, on view w.
Did(op, w) == w \in views /\ last.op = op /\ last.w = w

\* ------------------------------------------------------------------ claims

\* C1: for an inactive view whose href resolves to h, handling a 'route' event
\* while the fragment equals h makes isActive() true and adds the class that
\* activeClass resolves to; handling one while the view is active and the
\* fragment differs from h makes isActive() false and removes the class that
\* activeClass resolves to.
C1_RouteActivatesAndDeactivates ==
  [][\A w \in AllWidgets :
       (Did("route", w)' /\ ~Throws(self[w]["href"]) /\ ~Throws(self[w]["activeClass"])) =>
         LET h == Resolved(self[w]["href"])
             c == Resolved(self[w]["activeClass"]).v
         IN /\ (~Active(w) /\ Str(fragment) = h) =>
                 (Active(w)' /\ Classes(w)' = Classes(w) \cup {c})
            /\ (Active(w) /\ Str(fragment) # h) =>
                 (~Active(w)' /\ Classes(w)' = Classes(w) \ {c})]_vars

\* C1 witness: a view that was activated has just been deactivated by an event
\* whose fragment differs from its href, and the class is gone.
C1_Witness ==
  \E w \in views :
    /\ Did("route", w)
    /\ ~Throws(self[w]["href"])
    /\ Str(fragment) # Resolved(self[w]["href"])
    /\ CallsTo(last.calls, {"removeClass"}) # <<>>
    /\ ~Active(w)
    /\ Resolved(self[w]["activeClass"]).v \notin Classes(w)

\* C2: handling a 'route' event changes neither _isActive nor the element's
\* classes when the view is active and the fragment equals its href, and when
\* the view is inactive and the fragment differs from its href.
C2_NoOpRows ==
  [][\A w \in AllWidgets :
       (Did("route", w)' /\ ~Throws(self[w]["href"]) /\ ~Throws(self[w]["activeClass"])) =>
         LET h == Resolved(self[w]["href"])
         IN ((Active(w) /\ Str(fragment) = h) \/ (~Active(w) /\ Str(fragment) # h)) =>
              (self[w]["_isActive"]' = self[w]["_isActive"] /\ Classes(w)' = Classes(w))]_vars

\* C3: for a view whose activeClass is a literal that its element did not
\* carry at construction, isActive() is true exactly when the element
\* carries that class.
C3_FlagMatchesClass ==
  \A w \in views :
    (~isFunction(self[w]["activeClass"])
       /\ self[w]["activeClass"].v \notin initial[w].classes) =>
      (Active(w) <=> self[w]["activeClass"].v \in Classes(w))

\* C3 witness: an active view with a literal activeClass carrying the class.
C3_Witness ==
  \E w \in views :
    /\ ~isFunction(self[w]["activeClass"])
    /\ self[w]["activeClass"].v \notin initial[w].classes
    /\ Active(w)
    /\ self[w]["activeClass"].v \in Classes(w)
    /\ Did("render", w)

\* C4: only the handling of a 'route' event changes _isActive or the element's
\* classes of a constructed view: render(), attributes(), isActive() and the
\* click handler leave both as they are.
C4_OnlyRouteMutates ==
  [][\A w \in views :
       (self[w]["_isActive"]' # self[w]["_isActive"] \/ Classes(w)' # Classes(w)) =>
         Did("route", w)']_vars

\* C4 witness: a click on an active view has issued its navigation request and
\* the view is still active and still carries its class.
C4_Witness ==
  \E w \in views :
    /\ Did("click", w)
    /\ navReq # NoRequest
    /\ Active(w)
    /\ Classes(w) # {}

\* C5: a click first calls preventDefault, then resolves href (a function is
\* called with the view as context), then issues exactly one navigate call for
\* the resolved href with trigger: true; when resolving href throws no request
\* is issued, and in every case preventDefault has been called.
C5_ClickOrder ==
  \A w \in views :
    Did("click", w) =>
      LET cs == last.calls
          x == self[w]["href"]
          navs == CallsTo(cs, {"navigate"})
      IN /\ Len(cs) >= 1
         /\ cs[1] = Call("preventDefault", Undef)
         /\ Len(CallsTo(cs, {"preventDefault"})) = 1
         /\ CallsTo(cs, {"href"}) = IF isFunction(x) THEN <<Call("href", This)>> ELSE <<>>
         /\ Throws(x) => (navs = <<>> /\ last.threw)
         /\ ~Throws(x) => (navs = <<NavigateCall(Resolved(x))>> /\ cs[Len(cs)].f = "navigate")

\* C5 witness: a click whose href function has thrown, the default action
\* being suppressed all the same.
C5_Witness ==
  \E w \in views :
    /\ Did("click", w)
    /\ Throws(self[w]["href"])
    /\ last.threw
    /\ last.calls[1].f = "preventDefault"

\* C6: every constructed view listens to 'route' and no step ever ends that:
\* each 'route' event is to be delivered to every constructed view, and a view
\* is taken off the delivery only by its handler running, also when the event
\* neither matches its href nor changes its state.
C6_ListensForLife ==
  [][/\ views' \subseteq listeners'
     /\ listeners \subseteq listeners'
     /\ (last'.op \in {"navigate", "routeChange"}) => (views' \subseteq pending')
     /\ \A w \in pending \ pending' :
          Did("route", w)' /\ last'.calls[1] = Call("getFragment", Undef)]_vars

\* C6 witness: the handler of an inactive view has run on an event whose
\* fragment is not its href, changing nothing, and the view still listens.
C6_Witness ==
  \E w \in views :
    /\ Did("route", w)
    /\ ~last.threw
    /\ ~Throws(self[w]["href"])
    /\ Str(fragment) # Resolved(self[w]["href"])
    /\ CallsTo(last.calls, {"addClass", "removeClass"}) = <<>>
    /\ ~Active(w)
    /\ w \in listeners

\* C7: a render() that returns writes text from textContent if textContent is
\* truthy, else markup from innerHTML if innerHTML is truthy, else markup from
\* template() if template is truthy, else nothing; it makes at most that one
\* write, evaluates no other source, and returns the view.
C7_RenderPriority ==
  [][\A w \in AllWidgets :
       (Did("render", w)' /\ ~last'.threw) =>
         LET me == self[w]
             t == me["textContent"]
             i == me["innerHTML"]
             p == me["template"]
             cs == last'.calls
             writes == CallsTo(cs, {"text", "html"})
             evals == CallsTo(cs, {"textContent", "innerHTML", "template"})
             Eval(prop) == IF isFunction(me[prop]) THEN <<Call(prop, This)>> ELSE <<>>
         IN /\ last'.ret = This
            /\ CASE truthy(t) ->
                      /\ Content(w)' = [kind |-> "text", v |-> Resolved(t).v]
                      /\ writes = <<Call("text", Resolved(t))>>
                      /\ evals = Eval("textContent")
                 [] ~truthy(t) /\ truthy(i) ->
                      /\ Content(w)' = [kind |-> "html", v |-> Resolved(i).v]
                      /\ writes = <<Call("html", Resolved(i))>>
                      /\ evals = Eval("innerHTML")
                 [] ~truthy(t) /\ ~truthy(i) /\ truthy(p) ->
                      /\ Content(w)' = [kind |-> "html", v |-> Resolved(p).v]
                      /\ writes = <<Call("html", Resolved(p))>>
                      /\ evals = Eval("template")
                 [] OTHER ->
                      /\ Content(w)' = Content(w)
                      /\ cs = <<>>]_vars

\* C7 witness: textContent, innerHTML and template are all set and render()
\* has written the text.
C7_Witness ==
  \E w \in views :
    /\ Did("render", w)
    /\ ~last.threw
    /\ truthy(self[w]["textContent"])
    /\ truthy(self[w]["innerHTML"])
    /\ truthy(self[w]["template"])
    /\ Content(w) = [kind |-> "text", v |-> Resolved(self[w]["textContent"]).v]

\* C8: a render() that directly follows a render() of the same view, both
\* returning, leaves the element's content as the first one left it.
C8_RenderIdempotent ==
  [][\A w \in AllWidgets :
       (Did("render", w) /\ ~last.threw /\ Did("render", w)' /\ last'.again /\ ~last'.threw) =>
         Content(w)' = Content(w)]_vars

\* C8 witness: render() has run twice in a row on an element that had other
\* content at construction, and the content is the rendered one.
C8_Witness ==
  \E w \in views :
    /\ Did("render", w)
    /\ last.again
    /\ ~last.threw
    /\ CallsTo(last.calls, {"text", "html"}) # <<>>
    /\ Content(w).v # ""
    /\ Content(w).v # "X"

\* C9: attributes().href is what href resolves to at the call: a literal as it
\* is, a function's result from a call with the view as context.
C9_AttributesHref ==
  \A w \in views :
    Did("attributes", w) =>
      LET x == self[w]["href"]
      IN /\ last.threw <=> Throws(x)
         /\ ~Throws(x) => last.ret = Resolved(x)
         /\ ~isFunction(x) => (last.ret = x /\ last.calls = <<>>)
         /\ isFunction(x) => last.calls = <<Call("href", This)>>

\* C9 witness: the href function returns something else than it did at
\* construction and attributes() has returned the new result.
C9_Witness ==
  \E w \in views :
    /\ Did("attributes", w)
    /\ isFunction(self[w]["href"])
    /\ ~last.threw
    /\ last.ret = Str("home")
    /\ el[w].href = Str("about")

\* C10: the class a handling of 'route' adds or removes is what activeClass
\* resolves to in that handling, 'active' when no activeClass option was
\* given; a function-valued activeClass is called once in every handling
\* whose href resolves, also when the handling changes nothing.
C10_ActiveClassResolvedPerEvent ==
  \A w \in views :
    Did("route", w) =>
      LET x == self[w]["activeClass"]
          cs == last.calls
          muts == CallsTo(cs, {"addClass", "removeClass"})
      IN /\ \A k \in 1..Len(muts) : muts[k].a = Resolved(x)
         /\ ("activeClass" \notin DOMAIN initial[w].options) =>
              (x = Str("active") /\ \A k \in 1..Len(muts) : muts[k].a = Str("active"))
         /\ (isFunction(x) /\ ~Throws(self[w]["href"])) =>
              CallsTo(cs, {"activeClass"}) = <<Call("activeClass", This)>>
         /\ ~isFunction(x) => CallsTo(cs, {"activeClass"}) = <<>>

\* C10 witness: a handling of 'route' that changed nothing has called the
\* activeClass function.
C10_Witness ==
  \E w \in views :
    /\ Did("route", w)
    /\ ~last.threw
    /\ isFunction(self[w]["activeClass"])
    /\ CallsTo(last.calls, {"activeClass"}) # <<>>
    /\ CallsTo(last.calls, {"addClass", "removeClass"}) = <<>>

\* C11: the constructor copies href, activeClass, textContent, innerHTML and
\* template from the options object and no other key, _isActive included:
\* right after construction every other field is the prototype's and
\* isActive() is false, whatever the options and the current fragment.
C11_ConstructorCopiesRecognisedOnly ==
  \A w \in views :
    Did("constructor", w) =>
      LET options == initial[w].options
      IN /\ DOMAIN self[w] = Fields
         /\ \A k \in linkViewOptions :
              self[w][k] = IF k \in DOMAIN options THEN options[k] ELSE Prototype[k]
         /\ self[w]["_isActive"] = Undef
         /\ ~Active(w)
         /\ isActive(self[w], el[w]).ret = Bool(FALSE)

\* C11 witness: a view constructed with _isActive: true in its options while
\* the current fragment is its href, and isActive() is false.
C11_Witness ==
  \E w \in views :
    /\ Did("constructor", w)
    /\ "_isActive" \in DOMAIN initial[w].options
    /\ truthy(initial[w].options["_isActive"])
    /\ Str(fragment) = self[w]["href"]
    /\ ~Active(w)

\* C12: when resolving href or activeClass throws in the handling of a
\* 'route' event, the handling throws and the view's fields and its element
\* are what they were before the event.
C12_ThrowLeavesStateUntouched ==
  [][\A w \in AllWidgets :
       (Did("route", w)' /\ (Throws(self[w]["href"]) \/ Throws(self[w]["activeClass"]))) =>
         /\ last'.threw
         /\ self'[w] = self[w]
         /\ el'[w] = el[w]
         /\ CallsTo(last'.calls, {"addClass", "removeClass"}) = <<>>]_vars

\* C12 witness: an inactive view on its own fragment whose activeClass threw
\* in the handling, so that it is still inactive and carries no class.
C12_Witness ==
  \E w \in views :
    /\ Did("route", w)
    /\ last.threw
    /\ ~Throws(self[w]["href"])
    /\ Throws(self[w]["activeClass"])
    /\ Str(fragment) = Resolved(self[w]["href"])
    /\ ~Active(w)
    /\ Classes(w) = {}

\* C13: right after a view with a literal href has handled a 'route' event
\* (the handling did not throw), isActive() is true exactly when the current
\* fragment equals its href.
C13_ActiveIffOnFragment ==
  \A w \in views :
    (Did("route", w) /\ ~last.threw /\ self[w]["href"].t = "string") =>
      (Active(w) <=> Str(fragment) = self[w]["href"])

\* C14: when a click on a view with a literal href has been answered by the
\* router (the href made current, 'route' triggered) and the view has handled
\* that event, the view is active and its element carries the active class.
C14_ClickActivates ==
  [][\A w \in AllWidgets :
       (last.op = "navigate" /\ last.w = w /\ self[w]["href"].t = "string"
          /\ Did("route", w)' /\ ~last'.threw) =>
         (Active(w)' /\ Resolved(self[w]["activeClass"]).v \in Classes(w)')]_vars

\* C15: a handling of 'route' calls addClass only when it takes the view from
\* inactive to active and removeClass only when it takes it from active to
\* inactive, makes at most one of these calls, and changes the flag only
\* with one of them; so the calls alternate, starting with addClass.
C15_NoRedundantClassMutation ==
  [][\A w \in AllWidgets :
       Did("route", w)' =>
         LET adds == CallsTo(last'.calls, {"addClass"})
             removes == CallsTo(last'.calls, {"removeClass"})
         IN /\ Len(adds) + Len(removes) <= 1
            /\ adds # <<>> <=> (~Active(w) /\ Active(w)')
            /\ removes # <<>> <=> (Active(w) /\ ~Active(w)')]_vars

\* C15 witness: a view whose activeClass is a function has been activated and
\* then deactivated, the handling making the one removeClass call.
C15_Witness ==
  \E w \in views :
    /\ Did("route", w)
    /\ isFunction(self[w]["activeClass"])
    /\ Len(CallsTo(last.calls, {"removeClass"})) = 1
    /\ CallsTo(last.calls, {"addClass"}) = <<>>
    /\ self[w]["_isActive"] = Bool(FALSE)

\* The views listening to one router have literal, pairwise distinct hrefs.
DistinctHrefs ==
  /\ \A w \in views : self[w]["href"].t = "string"
  /\ \A v, w \in views : v # w => self[v]["href"] # self[w]["href"]

ActiveViews == {w \in views : Active(w)}

Requested == CallsTo(last.calls, {"navigate"})

\* C18 as stated: the fragment a click passes to the router is the href
\* attribute the element was given at construction.
C18_ClickFollowsAttribute ==
  \A w \in views :
    (Did("click", w) /\ Requested # <<>>) => Requested[1].a = el[w].href

\* C18 as amended: the fragment a click passes to the router is the href
\* attribute the element was given at construction when href is a literal, or
\* a function that resolves at the click to what it resolved to at
\* construction; otherwise it is what href resolves to at the click.
C18_ClickFollowsAttributeWhileUnchanged ==
  \A w \in views :
    (Did("click", w) /\ Requested # <<>>) =>
      LET x == self[w]["href"]
      IN /\ (~isFunction(x) \/ Resolved(x) = el[w].href) => Requested[1].a = el[w].href
         /\ Requested[1].a = Resolved(x)

\* C18 witness: a click on a view whose href is a function that returns what
\* it returned at construction has asked for the element's href.
C18_Witness ==
  \E w \in views :
    /\ Did("click", w)
    /\ isFunction(self[w]["href"])
    /\ Requested # <<>>
    /\ Requested[1].a = el[w].href
    /\ el[w].href.t = "string"

\* C19 as stated: when textContent is a function that resolves to the empty
\* string, render() writes the markup of innerHTML if that resolves to
\* something non-empty, else the markup of template() if that does.
C19_FirstNonEmptyResolved ==
  [][\A w \in AllWidgets :
       (Did("render", w)' /\ ~last'.threw
          /\ isFunction(self[w]["textContent"]) /\ self[w]["textContent"].v = "") =>
         LET i == self[w]["innerHTML"]
             p == self[w]["template"]
             NonEmpty(x) == truthy(x) /\ ~Throws(x) /\ Resolved(x).v # ""
         IN /\ NonEmpty(i) => Content(w)' = [kind |-> "html", v |-> Resolved(i).v]
            /\ (~NonEmpty(i) /\ NonEmpty(p)) =>
                 Content(w)' = [kind |-> "html", v |-> Resolved(p).v]]_vars

\* C19 as amended: the source render() honours is the first of textContent,
\* innerHTML, template whose option value, before it is resolved, is truthy,
\* and a function always is: when textContent is a function that resolves to
\* the empty string render() writes empty text and evaluates neither
\* innerHTML nor template; likewise for innerHTML when textContent is falsy.
C19_FirstTruthyOption ==
  [][\A w \in AllWidgets :
       (Did("render", w)' /\ ~last'.threw) =>
         LET t == self[w]["textContent"]
             i == self[w]["innerHTML"]
             cs == last'.calls
         IN /\ (isFunction(t) /\ t.v = "") =>
                 /\ Content(w)' = [kind |-> "text", v |-> ""]
                 /\ CallsTo(cs, {"text", "html"}) = <<Call("text", Str(""))>>
                 /\ CallsTo(cs, {"innerHTML", "template"}) = <<>>
            /\ (~truthy(t) /\ isFunction(i) /\ i.v = "") =>
                 /\ Content(w)' = [kind |-> "html", v |-> ""]
                 /\ CallsTo(cs, {"text", "html"}) = <<Call("html", Str(""))>>
                 /\ CallsTo(cs, {"template"}) = <<>>]_vars

\* C19 witness: textContent is a function returning the empty string,
\* innerHTML yields content, and render() has written empty text.
C19_Witness ==
  \E w \in views :
    /\ Did("render", w)
    /\ ~last.threw
    /\ isFunction(self[w]["textContent"])
    /\ self[w]["textContent"].v = ""
    /\ truthy(self[w]["innerHTML"])
    /\ ~Throws(self[w]["innerHTML"])
    /\ Resolved(self[w]["innerHTML"]).v # ""
    /\ Content(w) = [kind |-> "text", v |-> ""]

====
